---- MODULE Spec2Model ----
(***************************************************************************)
(* Model of the poly-survivor bot: the risk gate (RiskManager), the bet    *)
(* handler (SurvivalBot._execute_bet), the tool dispatcher                 *)
(* (SurvivalBot.execute_tool), the decision loop (SurvivalBot.run_cycle)   *)
(* and the research cache (ResearchService).                               *)
(*                                                                         *)
(* Amounts are whole US dollars held as integers; the two percentages of   *)
(* config.py are held as integer percents, so `x < total * 0.20` is        *)
(* written `x * 100 < total * 20`.  Floating-point rounding is not         *)
(* modelled.  Time is a clock in hours; date.today() is the clock's day.   *)
(***************************************************************************)
EXTENDS Integers, Sequences, FiniteSets, TLC

VARIABLES
    now,             \* the wall clock, in hours since the bot was constructed
    dry_run,         \* SurvivalBot.dry_run
    daily_bets,      \* RiskManager.daily_bets: day -> amount, a partial map
    research_count,  \* SurvivalBot.research_count
    store,           \* the research table: market_id -> research_time or NoRecord
    last,            \* what the most recent call was given and what it returned
    cycle,           \* where SurvivalBot.run_cycle stands, and what it has done
    got,             \* market_id -> what the latest direct get_research_result
                     \* returned, forgotten when the market is saved or deleted
    last_summary,    \* the contents of last_summary.txt, or NoSummary
    reported         \* day -> sum of the amounts of the place_bet calls that
                     \* returned success: true, kept where the bet handler
                     \* is driven together with the trader

vars ==
    <<now, dry_run, daily_bets, research_count, store, last, cycle, got,
      last_summary, reported>>

(***************************************************************************)
(* config.py                                                               *)
(***************************************************************************)
MAX_SINGLE_BET == 15
MAX_POSITION_PCT == 25
MAX_DAILY_BETS == 30
MIN_RESERVE_PCT == 20
MAX_RESEARCH_PER_CYCLE == 5
CACHE_EXPIRY_HOURS == 24
max_iterations == 20

(***************************************************************************)
(* Bounds of the model                                                     *)
(***************************************************************************)
MaxTicks == 2        \* the clock advances at most this many half days
GateMaxTicks == 2    \* the same, when the risk gate is driven alone
LedgerFloor == 10    \* no ledger entry is driven below -LedgerFloor
GateLedgerCap == 30  \* direct record_bet calls keep an entry within this
ResearchMaxHours == 26  \* the clock stops here when the research service is driven
MaxToolUses == 2     \* tool_use blocks in one oracle response
PaidCap == 6         \* paid research calls followed within one cycle

Markets == {"m1", "m2"}
NoRecord == -1

\* Amounts the oracle may pass to place_bet: its schema says only "number".
Amounts == {-10, 10, 25}

\* Markets the oracle asks research for.
ResearchMarkets == {"m1"}

MsgResearch == "Must research market before betting"
MsgSingle == "Single bet cannot exceed $15.0"
MsgBalance == "Insufficient balance"
MsgReserve == "Must maintain 20% reserve"
MsgPosition == "Position would exceed 25% of balance"
MsgDaily == "Daily betting limit ($30.0) reached"
MsgOK == "OK"

\* date.today().isoformat(): the day the clock is in.
Today(t) == t \div 24

\* dict.get(key, default) on a partial map.
Get(m, k, default) == IF k \in DOMAIN m THEN m[k] ELSE default

\* sum(p.get("current_value", 0) for p in positions if p.get("market_id") == market_id)
RECURSIVE existing_position(_, _)
existing_position(positions, market_id) ==
    IF positions = <<>> THEN 0
    ELSE (IF Head(positions).market_id = market_id
             THEN Head(positions).current_value ELSE 0)
         + existing_position(Tail(positions), market_id)

(***************************************************************************)
(* RiskManager.check_bet.  The result carries, beside (allowed, message),  *)
(* the ledger as the call leaves it.                                       *)
(***************************************************************************)
check_bet_no_research_rule(ledger, t, amount, market_id, balance, positions, researched) ==
    LET today == Today(t)
        available == balance.available_usdc
        total == balance.total_usdc
        existing == existing_position(positions, market_id)
        daily_total == Get(ledger, today, 0)
        R(a, m) == [allowed |-> a, message |-> m, daily_bets |-> ledger]
    IN  IF amount > MAX_SINGLE_BET THEN R(FALSE, MsgSingle)
        ELSE IF amount > available THEN R(FALSE, MsgBalance)
        ELSE IF (available - amount) * 100 < total * MIN_RESERVE_PCT
            THEN R(FALSE, MsgReserve)
        ELSE IF (existing + amount) * 100 > total * MAX_POSITION_PCT
            THEN R(FALSE, MsgPosition)
        ELSE IF daily_total + amount > MAX_DAILY_BETS THEN R(FALSE, MsgDaily)
        ELSE R(TRUE, MsgOK)

check_bet_no_single_rule(ledger, t, amount, market_id, balance, positions, researched) ==
    LET today == Today(t)
        available == balance.available_usdc
        total == balance.total_usdc
        existing == existing_position(positions, market_id)
        daily_total == Get(ledger, today, 0)
        R(a, m) == [allowed |-> a, message |-> m, daily_bets |-> ledger]
    IN  IF ~researched THEN R(FALSE, MsgResearch)
        ELSE IF amount > available THEN R(FALSE, MsgBalance)
        ELSE IF (available - amount) * 100 < total * MIN_RESERVE_PCT
            THEN R(FALSE, MsgReserve)
        ELSE IF (existing + amount) * 100 > total * MAX_POSITION_PCT
            THEN R(FALSE, MsgPosition)
        ELSE IF daily_total + amount > MAX_DAILY_BETS THEN R(FALSE, MsgDaily)
        ELSE R(TRUE, MsgOK)

check_bet_no_reserve_rule(ledger, t, amount, market_id, balance, positions, researched) ==
    LET today == Today(t)
        available == balance.available_usdc
        total == balance.total_usdc
        existing == existing_position(positions, market_id)
        daily_total == Get(ledger, today, 0)
        R(a, m) == [allowed |-> a, message |-> m, daily_bets |-> ledger]
    IN  IF ~researched THEN R(FALSE, MsgResearch)
        ELSE IF amount > MAX_SINGLE_BET THEN R(FALSE, MsgSingle)
        ELSE IF amount > available THEN R(FALSE, MsgBalance)
        ELSE IF (existing + amount) * 100 > total * MAX_POSITION_PCT
            THEN R(FALSE, MsgPosition)
        ELSE IF daily_total + amount > MAX_DAILY_BETS THEN R(FALSE, MsgDaily)
        ELSE R(TRUE, MsgOK)

check_bet_no_daily_rule(ledger, t, amount, market_id, balance, positions, researched) ==
    LET today == Today(t)
        available == balance.available_usdc
        total == balance.total_usdc
        existing == existing_position(positions, market_id)
        R(a, m) == [allowed |-> a, message |-> m, daily_bets |-> ledger]
    IN  IF ~researched THEN R(FALSE, MsgResearch)
        ELSE IF amount > MAX_SINGLE_BET THEN R(FALSE, MsgSingle)
        ELSE IF amount > available THEN R(FALSE, MsgBalance)
        ELSE IF (available - amount) * 100 < total * MIN_RESERVE_PCT
            THEN R(FALSE, MsgReserve)
        ELSE IF (existing + amount) * 100 > total * MAX_POSITION_PCT
            THEN R(FALSE, MsgPosition)
        ELSE R(TRUE, MsgOK)

check_bet_position_before_reserve(ledger, t, amount, market_id, balance, positions, researched) ==
    LET today == Today(t)
        available == balance.available_usdc
        total == balance.total_usdc
        existing == existing_position(positions, market_id)
        daily_total == Get(ledger, today, 0)
        R(a, m) == [allowed |-> a, message |-> m, daily_bets |-> ledger]
    IN  IF ~researched THEN R(FALSE, MsgResearch)
        ELSE IF amount > MAX_SINGLE_BET THEN R(FALSE, MsgSingle)
        ELSE IF amount > available THEN R(FALSE, MsgBalance)
        ELSE IF (existing + amount) * 100 > total * MAX_POSITION_PCT
            THEN R(FALSE, MsgPosition)
        ELSE IF (available - amount) * 100 < total * MIN_RESERVE_PCT
            THEN R(FALSE, MsgReserve)
        ELSE IF daily_total + amount > MAX_DAILY_BETS THEN R(FALSE, MsgDaily)
        ELSE R(TRUE, MsgOK)

check_bet_setdefault(ledger, t, amount, market_id, balance, positions, researched) ==
    LET today == Today(t)
        available == balance.available_usdc
        total == balance.total_usdc
        existing == existing_position(positions, market_id)
        touched == [d \in DOMAIN ledger \cup {today} |-> Get(ledger, d, 0)]
        daily_total == touched[today]
        R(a, m) == [allowed |-> a, message |-> m, daily_bets |-> touched]
    IN  IF ~researched THEN R(FALSE, MsgResearch)
        ELSE IF amount > MAX_SINGLE_BET THEN R(FALSE, MsgSingle)
        ELSE IF amount > available THEN R(FALSE, MsgBalance)
        ELSE IF (available - amount) * 100 < total * MIN_RESERVE_PCT
            THEN R(FALSE, MsgReserve)
        ELSE IF (existing + amount) * 100 > total * MAX_POSITION_PCT
            THEN R(FALSE, MsgPosition)
        ELSE IF daily_total + amount > MAX_DAILY_BETS THEN R(FALSE, MsgDaily)
        ELSE R(TRUE, MsgOK)

check_bet(ledger, t, amount, market_id, balance, positions, researched) ==
    LET today == Today(t)
        available == balance.available_usdc
        total == balance.total_usdc
        existing == existing_position(positions, market_id)
        daily_total == Get(ledger, today, 0)
        R(a, m) == [allowed |-> a, message |-> m, daily_bets |-> ledger]
    IN  IF ~researched THEN R(FALSE, MsgResearch)
        ELSE IF amount > MAX_SINGLE_BET THEN R(FALSE, MsgSingle)
        ELSE IF amount > available THEN R(FALSE, MsgBalance)
        ELSE IF (available - amount) * 100 < total * MIN_RESERVE_PCT
            THEN R(FALSE, MsgReserve)
        ELSE IF (existing + amount) * 100 > total * MAX_POSITION_PCT
            THEN R(FALSE, MsgPosition)
        ELSE IF daily_total + amount > MAX_DAILY_BETS THEN R(FALSE, MsgDaily)
        ELSE R(TRUE, MsgOK)

\* RiskManager.record_bet: self.daily_bets[today] = self.daily_bets.get(today, 0) + amount
record_bet_one_total(ledger, t, amount) ==
    [d \in DOMAIN ledger \cup {0} |->
        IF d = 0 THEN Get(ledger, 0, 0) + amount ELSE ledger[d]]

\* today = date.today().isoformat(): the entry of the day of the call.
record_bet(ledger, t, amount) ==
    LET today == Today(t)
    IN  [d \in DOMAIN ledger \cup {today} |->
            IF d = today THEN Get(ledger, today, 0) + amount ELSE ledger[d]]

Snapshot(a, l, t) == [available_usdc |-> a, locked_usdc |-> l, total_usdc |-> t]

Position(m, v) == [market_id |-> m, current_value |-> v]

NoOrder == [market_id |-> "", amount |-> 0]

NoBalance == [available_usdc |-> 0, locked_usdc |-> 0, total_usdc |-> 0]

\* A number the research answer does not carry.
Absent == -1

\* No research answer, and no research result built from one.
NoAnswer == [oracle_ok |-> FALSE, json |-> "", probability |-> Absent,
             confidence |-> Absent]

NoResult == [raised |-> FALSE, kind |-> "", estimated_probability |-> Absent,
             confidence |-> Absent]

\* What PolymarketTrader.buy or sell was given and what came of it, when
\* neither was called.  Money is in thousandths of a dollar, an order's
\* price in cents and its size in ten-thousandths of a share.
NoTrade ==
    [side |-> "", event_ok |-> FALSE, limit_price |-> 0, market |-> FALSE,
     book |-> [asks |-> <<>>, bids |-> <<>>], amount |-> 0,
     sign_ok |-> FALSE, post_ok |-> FALSE,
     raised |-> FALSE, error |-> "", built |-> FALSE, used_price |-> 0,
     price |-> 0, size |-> 0, effective_amount |-> 0, signed |-> FALSE,
     attempts |-> 0, returned |-> FALSE]

\* What the most recent call was given and what it returned.
NoCall ==
    [op |-> "none", market_id |-> "", amount |-> 0, balance |-> NoBalance,
     positions |-> <<>>, researched |-> FALSE, allowed |-> FALSE,
     message |-> "", stage |-> "", posted |-> FALSE, returned |-> FALSE,
     order |-> NoOrder, success |-> FALSE, record |-> NoRecord, listed |-> {},
     replaced |-> NoRecord, trade |-> NoTrade, path |-> "", signed |-> FALSE,
     queried |-> FALSE, raw |-> 0, answer |-> NoAnswer, result |-> NoResult,
     saves |-> FALSE]

EmptyLedger == [d \in {} |-> 0]

\* last_summary.txt does not exist.
NoSummary == "none"

\* run_cycle is not running: no oracle call made, nothing dispatched, nothing
\* reported.
NoCycle ==
    [pc |-> "idle", iteration |-> 0, oracle_calls |-> 0, tool_uses |-> 0,
     pending |-> 0, tool_results |-> 0, turns_dispatched |-> 0, paid |-> 0,
     response |-> "none", report |-> "", file_ok |-> TRUE, history_ok |-> TRUE,
     file_tried |-> FALSE, history_tried |-> FALSE,
     messages |-> <<>>, result_ids |-> <<>>, turn_saved |-> FALSE,
     turn_spent |-> 0, loaded |-> NoSummary]

(***************************************************************************)
(* The risk gate driven alone: any sequence of check_bet and record_bet    *)
(* calls on one RiskManager, with the clock advancing between calls.       *)
(***************************************************************************)
GateBalances == {Snapshot(100, 0, 100), Snapshot(18, 82, 100), Snapshot(10, 0, 10)}

GatePositions ==
    {<<>>, <<Position("m1", 10), Position("m2", 20), Position("m1", 5)>>}

\* Amounts check_bet is called with when the gate is driven alone.
GateAmounts == {-5, 0, 1, 10, 15, 16, 25}

GateRecordAmounts == {10, 15}

GateInit ==
    /\ now = 0
    /\ dry_run = FALSE
    /\ daily_bets = EmptyLedger
    /\ research_count = 0
    /\ store = [m \in Markets |-> NoRecord]
    /\ last = NoCall
    /\ cycle = NoCycle
    /\ got = [m \in Markets |-> NoRecord]
    /\ last_summary = NoSummary
    /\ reported = EmptyLedger

GateCheckBet ==
    \E amount \in GateAmounts, market_id \in Markets, balance \in GateBalances,
       positions \in GatePositions, researched \in BOOLEAN :
        \E r \in {check_bet(daily_bets, now, amount, market_id, balance,
                           positions, researched)} :
            /\ daily_bets' = r.daily_bets
            /\ last' = [NoCall EXCEPT !.op = "check_bet",
                            !.market_id = market_id, !.amount = amount,
                            !.balance = balance, !.positions = positions,
                            !.researched = researched, !.allowed = r.allowed,
                            !.message = r.message]
            /\ UNCHANGED <<reported, last_summary, got, cycle, now, dry_run, research_count, store>>

GateRecordBet ==
    \E amount \in GateRecordAmounts :
        \E after \in {record_bet(daily_bets, now, amount)} :
            /\ after[Today(now)] <= GateLedgerCap
            /\ daily_bets' = after
            /\ last' = [NoCall EXCEPT !.op = "record_bet", !.amount = amount]
            /\ UNCHANGED <<reported, last_summary, got, cycle, now, dry_run, research_count, store>>

GateTick ==
    /\ now + 12 <= 12 * GateMaxTicks
    /\ now' = now + 12
    /\ last' = NoCall
    /\ UNCHANGED <<reported, last_summary, got, cycle, dry_run, daily_bets, research_count, store>>

GateNext == GateCheckBet \/ GateRecordBet \/ GateTick

SpecGate == GateInit /\ [][GateNext]_vars

(***************************************************************************)
(* Collaborators of the bet handler                                        *)
(***************************************************************************)
\* ResearchService.get_research_result: the stored record (held as its
\* research_time) unless none is stored or it is older than the expiry.
get_research_result_expires_at_limit(st, t, market_id) ==
    IF st[market_id] = NoRecord THEN NoRecord
    ELSE IF t - st[market_id] >= CACHE_EXPIRY_HOURS THEN NoRecord
    ELSE st[market_id]

get_research_result(st, t, market_id) ==
    IF st[market_id] = NoRecord THEN NoRecord
    ELSE IF t - st[market_id] > CACHE_EXPIRY_HOURS THEN NoRecord
    ELSE st[market_id]

\* ResearchService._save_research: INSERT OR REPLACE into a table whose
\* PRIMARY KEY is market_id, with research_time = datetime.utcnow().
save_research_insert_only(st, t, market_id) ==
    IF st[market_id] = NoRecord THEN [st EXCEPT ![market_id] = t] ELSE st

save_research(st, t, market_id) == [st EXCEPT ![market_id] = t]

Abs(x) == IF x < 0 THEN -x ELSE x

Max(a, b) == IF a >= b THEN a ELSE b

\* sum(abs(float(p.get("current_value", 0))) for p in positions)
RECURSIVE locked_value(_)
locked_value(positions) ==
    IF positions = <<>> THEN 0
    ELSE Abs(Head(positions).current_value) + locked_value(Tail(positions))

\* The balance API did not answer.
Unavailable == -1

\* The balance read failed as a whole (the outer except of get_balance).
Failed == -2

\* AccountService.get_balance, given what the balance API answered.
get_balance_assumes_funds(raw, positions) ==
    LET locked == locked_value(positions)
        raw_balance == IF raw \in {Unavailable, Failed} THEN 100 ELSE raw
    IN  Snapshot(Max(0, raw_balance - locked), locked, Max(raw_balance, locked))

get_balance(raw, positions) ==
    LET locked == locked_value(positions)
        raw_balance == IF raw = Unavailable THEN locked ELSE raw
    IN  IF raw = Failed THEN Snapshot(0, 0, 0)
        ELSE Snapshot(Max(0, raw_balance - locked), locked,
                      Max(raw_balance, locked))

\* What the account service answers during one place_bet.
Accounts ==
    {[raw |-> 100, positions |-> <<>>],
     [raw |-> Unavailable, positions |-> <<>>],
     [raw |-> 100, positions |-> <<Position("m1", 20)>>]}

\* How far the outside world lets a trade go: get_market_detail finds no
\* market, or one without a slug; trader.buy raises before the order is
\* posted (event not found, no ask in the book, signing fails), post_order
\* raises, or post_order returns (a dict, or something that is not one).
ExtPaths ==
    {"market_not_found", "no_slug", "event_not_found", "no_ask", "sign_failed",
     "post_raised", "returned_dict", "returned_other"}

BuyReached == {"event_not_found", "no_ask", "sign_failed", "post_raised",
               "returned_dict", "returned_other"}

\* trader.buy reached client.post_order
PostReached == {"post_raised", "returned_dict", "returned_other"}

\* trader.buy returned without raising
BuyReturned == {"returned_dict", "returned_other"}

\* A trade that returns may have taken long enough for the day to change
\* between check_bet and record_bet; on the other paths the time a call takes
\* is a Tick after it.
Outcomes ==
    {[path |-> p, elapsed |-> 0] : p \in ExtPaths}
        \cup {[path |-> p, elapsed |-> 12] : p \in BuyReturned}

(***************************************************************************)
(* SurvivalBot._execute_bet, in two parts.  execute_bet_gate is the part   *)
(* up to the dry-run return: the snapshot, the research lookup, the risk   *)
(* check.  Its stage is "rejected", "dry_run", or "trade" when the handler *)
(* goes on to the trade.                                                   *)
(***************************************************************************)
execute_bet_gate_unchecked(dry, ledger, st, t, market_id, amount, acct) ==
    LET balance == IF dry THEN Snapshot(100, 0, 100)
                   ELSE get_balance(acct.raw, acct.positions)
        positions == IF dry THEN <<>> ELSE acct.positions
        researched == get_research_result(st, t, market_id) # NoRecord
        After(c) ==
            [allowed |-> c.allowed, message |-> c.message, daily_bets |-> c.daily_bets,
             balance |-> balance, positions |-> positions, researched |-> researched,
             queried |-> ~dry,
             stage |-> IF dry THEN "dry_run" ELSE "trade"]
    IN  After(check_bet(ledger, t, amount, market_id, balance, positions, researched))

execute_bet_gate_any_stored_record(dry, ledger, st, t, market_id, amount, acct) ==
    LET balance == IF dry THEN Snapshot(100, 0, 100)
                   ELSE get_balance(acct.raw, acct.positions)
        positions == IF dry THEN <<>> ELSE acct.positions
        researched == st[market_id] # NoRecord
        After(c) ==
            [allowed |-> c.allowed, message |-> c.message, daily_bets |-> c.daily_bets,
             balance |-> balance, positions |-> positions, researched |-> researched,
             queried |-> ~dry,
             stage |-> IF ~c.allowed THEN "rejected"
                       ELSE IF dry THEN "dry_run" ELSE "trade"]
    IN  After(check_bet(ledger, t, amount, market_id, balance, positions, researched))

execute_bet_gate_ignores_dry_run(dry, ledger, st, t, market_id, amount, acct) ==
    LET balance == get_balance(acct.raw, acct.positions)
        positions == acct.positions
        researched == get_research_result(st, t, market_id) # NoRecord
        After(c) ==
            [allowed |-> c.allowed, message |-> c.message, daily_bets |-> c.daily_bets,
             balance |-> balance, positions |-> positions, researched |-> researched,
             queried |-> TRUE,
             stage |-> IF ~c.allowed THEN "rejected" ELSE "trade"]
    IN  After(check_bet(ledger, t, amount, market_id, balance, positions, researched))

execute_bet_gate(dry, ledger, st, t, market_id, amount, acct) ==
    LET balance == IF dry THEN Snapshot(100, 0, 100)
                   ELSE get_balance(acct.raw, acct.positions)
        positions == IF dry THEN <<>> ELSE acct.positions
        researched == get_research_result(st, t, market_id) # NoRecord
        After(c) ==
            [allowed |-> c.allowed, message |-> c.message, daily_bets |-> c.daily_bets,
             balance |-> balance, positions |-> positions, researched |-> researched,
             queried |-> ~dry,
             stage |-> IF ~c.allowed THEN "rejected"
                       ELSE IF dry THEN "dry_run" ELSE "trade"]
    IN  After(check_bet(ledger, t, amount, market_id, balance, positions, researched))

(***************************************************************************)
(* The rest of _execute_bet: get_market_detail, the slug, trader.buy and   *)
(* record_bet.  `path` is how far the outside world lets the trade go and  *)
(* `elapsed` the time trader.buy took: record_bet reads the day at the end *)
(* of it.  The result says whether post_order was reached (posted, with    *)
(* the order's market and amount) and what the tool result reports.        *)
(***************************************************************************)
execute_bet_trade_record_first(ledger, t, market_id, amount, path, elapsed) ==
    LET Res(stage, order, success, led, took) ==
            [stage |-> stage, posted |-> path \in PostReached,
             signed |-> path \in PostReached,
             returned |-> path \in BuyReturned, order |-> order,
             success |-> success, daily_bets |-> led, took |-> took]
        sent == [market_id |-> market_id, amount |-> amount]
        recorded == record_bet(ledger, t, amount)
    IN  IF path = "market_not_found"
            THEN Res("market_not_found", NoOrder, FALSE, ledger, 0)
        ELSE IF path = "no_slug" THEN Res("no_slug", NoOrder, FALSE, ledger, 0)
        ELSE IF path \notin PostReached
            THEN Res("trade_failed", NoOrder, FALSE, recorded, elapsed)
        ELSE IF path \notin BuyReturned
            THEN Res("trade_failed", sent, FALSE, recorded, elapsed)
        ELSE IF path = "returned_other"
            THEN Res("trade_failed", sent, FALSE, recorded, elapsed)
        ELSE Res("placed", sent, TRUE, recorded, elapsed)

execute_bet_trade(ledger, t, market_id, amount, path, elapsed) ==
    LET Res(stage, order, success, led, took) ==
            [stage |-> stage, posted |-> path \in PostReached,
             signed |-> path \in PostReached,
             returned |-> path \in BuyReturned, order |-> order,
             success |-> success, daily_bets |-> led, took |-> took]
        sent == [market_id |-> market_id, amount |-> amount]
    IN  IF path = "market_not_found"
            THEN Res("market_not_found", NoOrder, FALSE, ledger, 0)
        ELSE IF path = "no_slug" THEN Res("no_slug", NoOrder, FALSE, ledger, 0)
        ELSE IF path \notin PostReached
            THEN Res("trade_failed", NoOrder, FALSE, ledger, elapsed)
        ELSE IF path \notin BuyReturned
            THEN Res("trade_failed", sent, FALSE, ledger, elapsed)
        ELSE IF path = "returned_other"
            THEN Res("trade_failed", sent, FALSE,
                     record_bet(ledger, t + elapsed, amount), elapsed)
        ELSE Res("placed", sent, TRUE, record_bet(ledger, t + elapsed, amount), elapsed)

(***************************************************************************)
(* SurvivalBot.execute_tool: one action per tool                           *)
(***************************************************************************)
Init ==
    /\ now = 0
    /\ dry_run \in BOOLEAN
    /\ daily_bets = EmptyLedger
    /\ research_count = 0
    /\ store = [m \in Markets |-> NoRecord]
    /\ last = NoCall
    /\ cycle = NoCycle
    /\ got = [m \in Markets |-> NoRecord]
    /\ last_summary = NoSummary
    /\ reported = EmptyLedger

ReadOnly(op) ==
    /\ last' = [NoCall EXCEPT !.op = op, !.stage = "ok"]
    /\ UNCHANGED <<reported, last_summary, got, cycle, now, dry_run, daily_bets, research_count, store>>

ToolGetMarketsList == ReadOnly("get_markets_list")

ToolGetMarketDetail == ReadOnly("get_market_detail")

\* The get_balance branch of execute_tool: the fixed snapshot in dry-run
\* mode, the account service otherwise.
tool_get_balance_live(dry, acct) ==
    [balance |-> get_balance(acct.raw, acct.positions), queried |-> TRUE]

tool_get_balance(dry, acct) ==
    IF dry THEN [balance |-> Snapshot(100, 0, 100), queried |-> FALSE]
    ELSE [balance |-> get_balance(acct.raw, acct.positions), queried |-> TRUE]

\* The get_my_positions branch: no positions in dry-run mode.
tool_get_my_positions(dry, acct) ==
    IF dry THEN [positions |-> <<>>, queried |-> FALSE]
    ELSE [positions |-> acct.positions, queried |-> TRUE]

ToolGetBalance ==
    \E acct \in Accounts :
        \E r \in {tool_get_balance(dry_run, acct)} :
            /\ last' = [NoCall EXCEPT !.op = "get_balance", !.stage = "ok",
                            !.balance = r.balance, !.queried = r.queried]
            /\ UNCHANGED <<reported, last_summary, got, cycle, now, dry_run, daily_bets, research_count, store>>

ToolGetMyPositions ==
    \E acct \in Accounts :
        \E r \in {tool_get_my_positions(dry_run, acct)} :
            /\ last' = [NoCall EXCEPT !.op = "get_my_positions", !.stage = "ok",
                            !.positions = r.positions, !.queried = r.queried]
            /\ UNCHANGED <<reported, last_summary, got, cycle, now, dry_run, daily_bets, research_count, store>>

ToolUnknown ==
    /\ last' = [NoCall EXCEPT !.op = "unknown", !.stage = "error"]
    /\ UNCHANGED <<reported, last_summary, got, cycle, now, dry_run, daily_bets, research_count, store>>

ToolGetResearchResult ==
    \E market_id \in Markets :
        /\ last' = [NoCall EXCEPT !.op = "get_research_result",
                        !.market_id = market_id, !.stage = "ok",
                        !.researched =
                            get_research_result(store, now, market_id) # NoRecord]
        /\ UNCHANGED <<reported, last_summary, got, cycle, now, dry_run, daily_bets, research_count, store>>

ToolResearchMarketAndSave ==
    \E market_id \in ResearchMarkets, saved \in BOOLEAN :
        IF research_count >= MAX_RESEARCH_PER_CYCLE
        THEN /\ last' = [NoCall EXCEPT !.op = "research_market_and_save",
                             !.market_id = market_id, !.stage = "limit"]
             /\ UNCHANGED <<reported, last_summary, got, cycle, now, dry_run, daily_bets, research_count, store>>
        ELSE IF saved
        THEN /\ store' = save_research(store, now, market_id)
             /\ research_count' = research_count + 1
             /\ last' = [NoCall EXCEPT !.op = "research_market_and_save",
                             !.market_id = market_id, !.stage = "ok"]
             /\ UNCHANGED <<reported, last_summary, got, cycle, now, dry_run, daily_bets>>
        ELSE /\ last' = [NoCall EXCEPT !.op = "research_market_and_save",
                             !.market_id = market_id, !.stage = "error"]
             /\ UNCHANGED <<reported, last_summary, got, cycle, now, dry_run, daily_bets, research_count, store>>

\* place_bet.  The outside world is asked only when the handler gets to the
\* trade.
ToolPlaceBet ==
    \E market_id \in Markets, amount \in Amounts, acct \in Accounts :
        \E g \in {execute_bet_gate(dry_run, daily_bets, store, now, market_id,
                                   amount, acct)} :
            IF g.stage # "trade"
            THEN /\ daily_bets' = g.daily_bets
                 /\ last' = [NoCall EXCEPT !.op = "place_bet",
                                 !.market_id = market_id, !.amount = amount,
                                 !.balance = g.balance, !.positions = g.positions,
                                 !.researched = g.researched, !.queried = g.queried,
                                 !.allowed = g.allowed, !.message = g.message,
                                 !.stage = g.stage, !.success = (g.stage = "dry_run")]
                 /\ UNCHANGED <<reported, last_summary, got, cycle, now, dry_run, research_count, store>>
            ELSE \E out \in Outcomes :
                    \E r \in {execute_bet_trade(g.daily_bets, now, market_id, amount,
                                                out.path, out.elapsed)} :
                        /\ now + r.took <= 12 * MaxTicks
                        /\ \A d \in DOMAIN r.daily_bets :
                                r.daily_bets[d] >= -LedgerFloor
                        /\ daily_bets' = r.daily_bets
                        /\ now' = now + r.took
                        /\ last' = [NoCall EXCEPT !.op = "place_bet",
                                        !.market_id = market_id, !.amount = amount,
                                        !.balance = g.balance,
                                        !.positions = g.positions,
                                        !.researched = g.researched,
                                        !.queried = g.queried,
                                        !.allowed = g.allowed, !.message = g.message,
                                        !.path = out.path, !.signed = r.signed,
                                        !.stage = r.stage, !.posted = r.posted,
                                        !.returned = r.returned,
                                        !.order = r.order, !.success = r.success]
                        /\ UNCHANGED <<reported, last_summary, got, cycle, dry_run, research_count, store>>

Tick ==
    /\ now + 12 <= 12 * MaxTicks
    /\ now' = now + 12
    /\ last' = NoCall
    /\ UNCHANGED <<reported, last_summary, got, cycle, dry_run, daily_bets, research_count, store>>

Next ==
    \/ ToolGetMarketsList
    \/ ToolGetMarketDetail
    \/ ToolGetResearchResult
    \/ ToolResearchMarketAndSave
    \/ ToolGetBalance
    \/ ToolGetMyPositions
    \/ ToolPlaceBet
    \/ ToolUnknown
    \/ Tick

Spec == Init /\ [][Next]_vars

(***************************************************************************)
(* place_bet over chosen inputs: the handler of ToolPlaceBet, for the      *)
(* specifications below that drive it beside other operations.  It leaves  *)
(* `cycle` to the caller.                                                  *)
(***************************************************************************)
PlaceBetOver(markets, amounts, accounts, outcomes, horizon) ==
    \E market_id \in markets, amount \in amounts, acct \in accounts :
        \E g \in {execute_bet_gate(dry_run, daily_bets, store, now, market_id,
                                   amount, acct)} :
            IF g.stage # "trade"
            THEN /\ daily_bets' = g.daily_bets
                 /\ last' = [NoCall EXCEPT !.op = "place_bet",
                                 !.market_id = market_id, !.amount = amount,
                                 !.balance = g.balance, !.positions = g.positions,
                                 !.researched = g.researched, !.queried = g.queried,
                                 !.allowed = g.allowed, !.message = g.message,
                                 !.stage = g.stage, !.success = (g.stage = "dry_run")]
                 /\ UNCHANGED <<reported, last_summary, got, now, dry_run, research_count, store>>
            ELSE \E out \in outcomes :
                    \E r \in {execute_bet_trade(g.daily_bets, now, market_id, amount,
                                                out.path, out.elapsed)} :
                        /\ now + r.took <= horizon
                        /\ \A d \in DOMAIN r.daily_bets :
                                r.daily_bets[d] >= -LedgerFloor
                        /\ daily_bets' = r.daily_bets
                        /\ now' = now + r.took
                        /\ last' = [NoCall EXCEPT !.op = "place_bet",
                                        !.market_id = market_id, !.amount = amount,
                                        !.balance = g.balance,
                                        !.positions = g.positions,
                                        !.researched = g.researched,
                                        !.queried = g.queried,
                                        !.allowed = g.allowed, !.message = g.message,
                                        !.path = out.path, !.signed = r.signed,
                                        !.stage = r.stage, !.posted = r.posted,
                                        !.returned = r.returned,
                                        !.order = r.order, !.success = r.success]
                        /\ UNCHANGED <<reported, last_summary, got, dry_run, research_count, store>>

(***************************************************************************)
(* ResearchService driven directly, beside the bet handler that consults   *)
(* it.  A record is held as its research_time: _save_research writes       *)
(* datetime.utcnow().isoformat() and get_research_result reads it back     *)
(* with datetime.fromisoformat, which returns the datetime that was        *)
(* written.                                                                *)
(***************************************************************************)
\* The research table as get_research_result leaves it: the call runs one
\* SELECT and closes the connection.
get_research_result_table_purging(st, t, market_id) ==
    IF st[market_id] # NoRecord /\ t - st[market_id] > CACHE_EXPIRY_HOURS
    THEN [st EXCEPT ![market_id] = NoRecord]
    ELSE st

get_research_result_table_touching(st, t, market_id) ==
    IF get_research_result(st, t, market_id) # NoRecord
    THEN [st EXCEPT ![market_id] = t]
    ELSE st

get_research_result_table(st, t, market_id) == st

\* ResearchService.delete_research: DELETE ... WHERE market_id = ?
delete_research(st, market_id) == [st EXCEPT ![market_id] = NoRecord]

\* ResearchService.list_all_research: SELECT ... FROM research, no WHERE.
list_all_research(st) == {m \in DOMAIN st : st[m] # NoRecord}

\* ResearchService.research_market_and_save.  The research call to the
\* model API is always made (when it raises, a fallback result is built);
\* then _save_research writes the record, or raises when `saves` is false.
research_market_and_save(st, t, market_id, saves) ==
    [paid |-> TRUE,
     raised |-> ~saves,
     store |-> IF saves THEN save_research(st, t, market_id) ELSE st]

\* The clock steps between calls, in hours.
ResearchSteps == {12, 13}

ResearchBetAmounts == {10}

ResearchBetAccounts == {[raw |-> 100, positions |-> <<>>]}

ResearchBetOutcomes ==
    {[path |-> "returned_dict", elapsed |-> 0],
     [path |-> "post_raised", elapsed |-> 0],
     [path |-> "returned_dict", elapsed |-> 12]}

\* ResearchService._parse_research_response.  The text is held as what the
\* parser can find in it: a JSON object with "summary" that decodes
\* ("valid"), one that decodes but whose numbers float() refuses
\* ("bad_number"), one that does not decode ("undecodable"), or none
\* ("none"); and the numbers that follow the words probability and
\* confidence, in percent, or Absent.
parse_research_response(text) ==
    LET Or(x, default) == IF x = Absent THEN default ELSE x
    IN  IF text.json = "valid"
        THEN [raised |-> FALSE, kind |-> "parsed",
              estimated_probability |-> Or(text.probability, 50),
              confidence |-> Or(text.confidence, 50)]
        ELSE IF text.json = "bad_number"
        THEN [NoResult EXCEPT !.raised = TRUE]
        ELSE [raised |-> FALSE, kind |-> "fallback",
              estimated_probability |-> Or(text.probability, 50),
              confidence |-> Or(text.confidence, 30)]

\* The try / except of research_market_and_save: the result that goes to
\* _save_research.
research_result_raising(answer) ==
    IF ~answer.oracle_ok THEN [NoResult EXCEPT !.raised = TRUE]
    ELSE parse_research_response(answer)

research_result(answer) ==
    LET failed == [raised |-> FALSE, kind |-> "failed",
                   estimated_probability |-> 50, confidence |-> 0]
    IN  IF ~answer.oracle_ok THEN failed
        ELSE IF parse_research_response(answer).raised THEN failed
        ELSE parse_research_response(answer)

\* What the research oracle answers.
ResearchAnswers ==
    {[oracle_ok |-> FALSE, json |-> "none", probability |-> Absent,
      confidence |-> Absent],
     [oracle_ok |-> TRUE, json |-> "valid", probability |-> 70, confidence |-> 80],
     [oracle_ok |-> TRUE, json |-> "valid", probability |-> Absent,
      confidence |-> Absent],
     [oracle_ok |-> TRUE, json |-> "bad_number", probability |-> Absent,
      confidence |-> Absent],
     [oracle_ok |-> TRUE, json |-> "undecodable", probability |-> 70,
      confidence |-> 80],
     [oracle_ok |-> TRUE, json |-> "none", probability |-> 70,
      confidence |-> Absent],
     [oracle_ok |-> TRUE, json |-> "none", probability |-> Absent,
      confidence |-> Absent]}

ResearchGet ==
    \E market_id \in Markets :
        \E r \in {get_research_result(store, now, market_id)} :
            /\ store' = get_research_result_table(store, now, market_id)
            /\ got' = [got EXCEPT ![market_id] = r]
            /\ last' = [NoCall EXCEPT !.op = "research.get",
                            !.market_id = market_id, !.record = r,
                            !.researched = (r # NoRecord)]
            /\ UNCHANGED <<reported, last_summary, cycle, now, dry_run, daily_bets, research_count>>

ResearchSave ==
    \E market_id \in Markets, saves \in BOOLEAN, answer \in ResearchAnswers :
        \E built \in {research_result(answer)} :
            \E r \in {research_market_and_save(store, now, market_id,
                                               saves /\ ~built.raised)} :
                /\ store' = r.store
                /\ got' = IF r.raised THEN got
                          ELSE [got EXCEPT ![market_id] = NoRecord]
                /\ last' = [NoCall EXCEPT !.op = "research.save",
                                !.market_id = market_id,
                                !.replaced = store[market_id],
                                !.answer = answer, !.saves = saves,
                                !.result = built,
                                !.stage = IF r.raised THEN "error" ELSE "ok"]
                /\ UNCHANGED <<reported, last_summary, cycle, now, dry_run,
                               daily_bets, research_count>>

ResearchDelete ==
    \E market_id \in Markets :
        /\ store' = delete_research(store, market_id)
        /\ got' = [got EXCEPT ![market_id] = NoRecord]
        /\ last' = [NoCall EXCEPT !.op = "research.delete",
                        !.market_id = market_id]
        /\ UNCHANGED <<reported, last_summary, cycle, now, dry_run, daily_bets, research_count>>

ResearchListAll ==
    /\ last' = [NoCall EXCEPT !.op = "research.list_all",
                    !.listed = list_all_research(store)]
    /\ UNCHANGED <<reported, last_summary, got, cycle, now, dry_run, daily_bets, research_count, store>>

ResearchPlaceBet ==
    /\ PlaceBetOver(Markets, ResearchBetAmounts, ResearchBetAccounts,
                    ResearchBetOutcomes, ResearchMaxHours)
    /\ UNCHANGED cycle

ResearchTick ==
    \E h \in ResearchSteps :
        /\ now + h <= ResearchMaxHours
        /\ now' = now + h
        /\ last' = NoCall
        /\ UNCHANGED <<reported, last_summary, got, cycle, dry_run, daily_bets, research_count, store>>

ResearchNext ==
    \/ ResearchGet
    \/ ResearchSave
    \/ ResearchDelete
    \/ ResearchListAll
    \/ ResearchPlaceBet
    \/ ResearchTick

SpecResearch == Init /\ [][ResearchNext]_vars


(***************************************************************************)
(* SurvivalBot.run_cycle: the decision loop.  One step calls the oracle    *)
(* (client.messages.create) and looks at its response; the steps after it  *)
(* dispatch the response's tool_use blocks through execute_tool, one at a  *)
(* time.  `cycle` holds the loop's position and counts what the cycle has  *)
(* done: oracle calls, tool results appended, responses fully dispatched,  *)
(* research calls made to the model API.                                   *)
(***************************************************************************)
\* while iteration < max_iterations
loop_continues_through_limit(iteration) == iteration <= max_iterations

loop_continues(iteration) == iteration < max_iterations

\* if not tool_uses: the response ends the cycle
response_ends_cycle_never(tool_uses) == FALSE

response_ends_cycle(tool_uses) == tool_uses = 0

\* execute_tool's try / except Exception: what the caller gets when the
\* handler raised or returned.
execute_tool_uncaught(handler_raised) ==
    [raised |-> handler_raised, error |-> FALSE]

execute_tool_except(handler_raised) ==
    [raised |-> FALSE, error |-> handler_raised]

\* if self.research_count >= config.MAX_RESEARCH_PER_CYCLE
research_limit_reached_above(count) == count > MAX_RESEARCH_PER_CYCLE

research_limit_reached(count) == count >= MAX_RESEARCH_PER_CYCLE

\* SurvivalBot._save_summary, given whether the file write and the history
\* insert succeed: each is in its own try / except Exception.
save_summary_one_try(file_ok, history_ok) ==
    [file_tried |-> TRUE, history_tried |-> file_ok,
     raised |-> ~file_ok \/ ~history_ok]

save_summary(file_ok, history_ok) ==
    [file_tried |-> TRUE, history_tried |-> TRUE, raised |-> FALSE]

\* The research_market_and_save branch of execute_tool.  `outcome` is what
\* the call meets: a tool input without market_title, a save that raises, or
\* a save that succeeds.
tool_research(count, st, t, market_id, outcome) ==
    IF research_limit_reached(count)
    THEN [stage |-> "limit", raised |-> FALSE, paid |-> FALSE,
          research_count |-> count, store |-> st]
    ELSE IF outcome = "missing_argument"
    THEN [stage |-> "raised", raised |-> TRUE, paid |-> FALSE,
          research_count |-> count, store |-> st]
    ELSE LET r == research_market_and_save(st, t, market_id, outcome = "saved")
         IN  [stage |-> IF r.raised THEN "raised" ELSE "ok",
              raised |-> r.raised, paid |-> r.paid,
              research_count |-> IF r.raised THEN count ELSE count + 1,
              store |-> r.store]

ResearchOutcomes == {"missing_argument", "save_raised", "saved"}

\* messages.append(...): the conversation with one more message at its end.
\* A message is held as its role.
append_message_rewriting(messages, role) ==
    [messages EXCEPT ![Len(messages)] = role]

append_message(messages, role) == Append(messages, role)

\* for tool_use in tool_uses: the id of the block handled next, given the
\* ids of the results appended so far.  The blocks of a response carry the
\* ids 1 .. tool_uses in the order the oracle returned them.
next_tool_use_reversed(tool_uses, result_ids) == tool_uses - Len(result_ids)

next_tool_use(tool_uses, result_ids) == Len(result_ids) + 1

\* The number of tool_use blocks in an oracle response.
Responses == 0 .. MaxToolUses

\* Read-only tools the oracle calls in a cycle.
CycleReadTools == {"get_markets_list"}

CycleBetMarkets == {"m1"}

CycleBetAmounts == {15, 25}

CycleBetOutcomes ==
    {[path |-> p, elapsed |-> 0] :
        p \in {"market_not_found", "no_slug", "event_not_found", "no_ask",
               "returned_dict"}}

\* SurvivalBot._load_last_summary: the file's contents, None without a file.
load_last_summary(summary) == summary

\* The file write of _save_summary: last_summary.txt after it.
write_summary(summary, report, file_ok) == IF file_ok THEN report ELSE summary

\* return "Maximum iterations reached": the report, and what the return
\* leaves in last_summary.txt.
max_iterations_return_saving(summary) ==
    [report |-> "ceiling", last_summary |-> "ceiling"]

max_iterations_return(summary) ==
    [report |-> "ceiling", last_summary |-> summary]

\* run_cycle is entered: iteration = 0.  Nothing of the bot is reset.
CycleStart ==
    /\ cycle.pc \in {"idle", "done", "ceiling"}
    /\ cycle' = [NoCycle EXCEPT !.pc = "loop",
                                !.loaded = load_last_summary(last_summary),
                                !.messages = append_message(<<>>, "user")]
    /\ last' = NoCall
    /\ UNCHANGED <<reported, last_summary, got, now, dry_run, daily_bets, research_count, store>>

\* One turn of the while loop up to the dispatch: the oracle is called; a
\* response without tool_use blocks is saved and returned as the report.
\* cycle.response is the kind of the latest response: "raised" when the call
\* raised, "text" when it has no tool_use block, "tools" otherwise.
CycleOracle ==
    /\ cycle.pc = "loop"
    /\ loop_continues(cycle.iteration)
    /\ LET called == [cycle EXCEPT !.iteration = @ + 1, !.oracle_calls = @ + 1,
                                    !.tool_uses = 0, !.pending = 0,
                                    !.tool_results = 0, !.result_ids = <<>>,
                                    !.turn_saved = FALSE, !.turn_spent = 0]
       IN  \/ /\ cycle' = [called EXCEPT !.pc = "crashed", !.response = "raised"]
              /\ last_summary' = last_summary
           \/ \E response \in Responses :
                IF response_ends_cycle(response)
                THEN \E file_ok \in BOOLEAN, history_ok \in BOOLEAN :
                      \E saved \in {save_summary(file_ok, history_ok)} :
                        /\ last_summary' =
                            IF saved.file_tried
                            THEN write_summary(last_summary, "text", file_ok)
                            ELSE last_summary
                        /\ cycle' = [called EXCEPT
                                    !.response = "text",
                                    !.pc = IF saved.raised THEN "crashed" ELSE "done",
                                    !.report = IF saved.raised THEN "" ELSE "text",
                                    !.file_ok = file_ok, !.history_ok = history_ok,
                                    !.file_tried = saved.file_tried,
                                    !.history_tried = saved.history_tried]
                ELSE /\ last_summary' = last_summary
                     /\ cycle' = [called EXCEPT
                                !.response = IF response = 0 THEN "text" ELSE "tools",
                                !.pc = IF response = 0 THEN "loop" ELSE "dispatch",
                                !.tool_uses = response, !.pending = response,
                                !.messages =
                                    IF response = 0
                                    THEN append_message(
                                            append_message(@, "assistant"), "user")
                                    ELSE append_message(@, "assistant"),
                                !.turns_dispatched =
                                    IF response = 0 THEN @ + 1 ELSE @]
    /\ last' = NoCall
    /\ UNCHANGED <<reported, got, now, dry_run, daily_bets, research_count, store>>

\* The while condition fails: return the sentinel report.
CycleCeiling ==
    /\ cycle.pc = "loop"
    /\ ~loop_continues(cycle.iteration)
    /\ \E ret \in {max_iterations_return(last_summary)} :
        /\ cycle' = [cycle EXCEPT !.pc = "ceiling", !.report = ret.report]
        /\ last_summary' = ret.last_summary
    /\ last' = NoCall
    /\ UNCHANGED <<reported, got, now, dry_run, daily_bets, research_count, store>>

\* The body of `for tool_use in tool_uses` around one execute_tool call:
\* the result is appended with the id of its tool_use block; after the last
\* one the results go into the conversation as one user message and the
\* loop goes round.  `saved` and `spent` are what the handler wrote to the
\* research cache and to the ledger.
Dispatched(handler_raised, paid, saved, spent) ==
    \E out \in {execute_tool_except(handler_raised)} :
        cycle' =
            IF out.raised
            THEN [cycle EXCEPT !.pc = "crashed",
                               !.paid = @ + (IF paid THEN 1 ELSE 0)]
            ELSE [cycle EXCEPT
                    !.pending = @ - 1,
                    !.tool_results = @ + 1,
                    !.result_ids =
                        Append(@, next_tool_use(cycle.tool_uses, cycle.result_ids)),
                    !.messages = IF cycle.pending = 1
                                 THEN append_message(@, "user") ELSE @,
                    !.turn_saved = @ \/ saved,
                    !.turn_spent = @ + spent,
                    !.paid = @ + (IF paid THEN 1 ELSE 0),
                    !.turns_dispatched = IF cycle.pending = 1 THEN @ + 1 ELSE @,
                    !.pc = IF cycle.pending = 1 THEN "loop" ELSE "dispatch"]

Dispatching == cycle.pc = "dispatch" /\ cycle.pending > 0

CycleToolReadOnly ==
    /\ Dispatching
    /\ \E op \in CycleReadTools, handler_raised \in BOOLEAN :
        /\ last' = [NoCall EXCEPT !.op = op,
                        !.stage = IF handler_raised THEN "error" ELSE "ok"]
        /\ Dispatched(handler_raised, FALSE, FALSE, 0)
    /\ UNCHANGED <<reported, last_summary, got, now, dry_run, daily_bets, research_count, store>>

CycleToolUnknown ==
    /\ Dispatching
    /\ last' = [NoCall EXCEPT !.op = "unknown", !.stage = "error"]
    /\ Dispatched(FALSE, FALSE, FALSE, 0)
    /\ UNCHANGED <<reported, last_summary, got, now, dry_run, daily_bets, research_count, store>>

CycleToolResearch ==
    /\ Dispatching
    /\ \E market_id \in ResearchMarkets, outcome \in ResearchOutcomes :
        \E r \in {tool_research(research_count, store, now, market_id, outcome)} :
            /\ r.paid => cycle.paid < PaidCap
            /\ research_count' = r.research_count
            /\ store' = r.store
            /\ last' = [NoCall EXCEPT !.op = "research_market_and_save",
                            !.market_id = market_id,
                            !.stage = IF r.raised THEN "error" ELSE r.stage]
            /\ Dispatched(r.raised, r.paid, r.stage = "ok", 0)
    /\ UNCHANGED <<reported, last_summary, got, now, dry_run, daily_bets>>

CycleToolPlaceBet ==
    /\ Dispatching
    /\ PlaceBetOver(CycleBetMarkets, CycleBetAmounts, ResearchBetAccounts,
                    CycleBetOutcomes, 0)
    /\ Dispatched(FALSE, FALSE, FALSE,
                  Get(daily_bets', Today(now), 0) - Get(daily_bets, Today(now), 0))

\* place_bet called without one of its required arguments: KeyError before
\* _execute_bet is entered.
CycleToolPlaceBetRaises ==
    /\ Dispatching
    /\ last' = [NoCall EXCEPT !.op = "place_bet", !.stage = "error"]
    /\ Dispatched(TRUE, FALSE, FALSE, 0)
    /\ UNCHANGED <<reported, last_summary, got, now, dry_run, daily_bets, research_count, store>>

CycleNext ==
    \/ CycleStart
    \/ CycleOracle
    \/ CycleCeiling
    \/ CycleToolReadOnly
    \/ CycleToolUnknown
    \/ CycleToolResearch
    \/ CycleToolPlaceBet
    \/ CycleToolPlaceBetRaises

SpecCycle == Init /\ [][CycleNext]_vars


(***************************************************************************)
(* PolymarketTrader (trading.py): the order builder and the submission.    *)
(* Dollar amounts and input prices are held in thousandths of a dollar,    *)
(* the quantized order price in cents (2 decimal places) and the order     *)
(* size in ten-thousandths of a share (4 decimal places).  amount / price  *)
(* is taken exactly; the rounding of the binary floating-point division is *)
(* not modelled.                                                           *)
(***************************************************************************)
\* MIN_SHARES = 5.0
MIN_SHARES == 5

\* Units per dollar for amounts and input prices, cents per dollar, and
\* size units per share.
Mills == 1000

Cents == 100

SizeUnits == 10000

\* Decimal.quantize(..., rounding=ROUND_DOWN) of x / unit: toward zero.
round_down_to_nearest(x, unit) == (2 * x + unit) \div (2 * unit)

round_down(x, unit) == IF x >= 0 THEN x \div unit ELSE -((-x) \div unit)

\* PolymarketTrader.create_limit_order up to the OrderArgs: the price in
\* cents, the size in SizeUnits, and the amount as the code recomputes it.
\* A price of zero raises ZeroDivisionError at amount / price.
create_limit_order_no_minimum(price, amount) ==
    IF price = 0
    THEN [raised |-> TRUE, price |-> 0, size |-> 0, effective_amount |-> amount]
    ELSE [raised |-> FALSE,
          price |-> round_down(price, Mills \div Cents),
          size |-> round_down(amount * SizeUnits, price),
          effective_amount |-> amount]

create_limit_order(price, amount) ==
    IF price = 0
    THEN [raised |-> TRUE, price |-> 0, size |-> 0, effective_amount |-> amount]
    ELSE LET below == amount < MIN_SHARES * price
             adjusted == IF below THEN MIN_SHARES * price ELSE amount
         IN  [raised |-> FALSE,
              price |-> round_down(price, Mills \div Cents),
              size |-> IF below THEN MIN_SHARES * SizeUnits
                       ELSE round_down(amount * SizeUnits, price),
              effective_amount |-> adjusted]

\* PolymarketTrader.create_market_order: the price it takes from the book.
\* A side that is missing or empty raises.
create_market_order_first_entry(side, book) ==
    LET entries == IF side = "BUY" THEN book.asks ELSE book.bids
    IN  IF entries = <<>> THEN [raised |-> TRUE, price |-> 0]
        ELSE [raised |-> FALSE, price |-> entries[1]]

create_market_order(side, book) ==
    LET entries == IF side = "BUY" THEN book.asks ELSE book.bids
    IN  IF entries = <<>> THEN [raised |-> TRUE, price |-> 0]
        ELSE [raised |-> FALSE, price |-> entries[Len(entries)]]

\* PolymarketTrader.place_order: client.post_order once; its exception is
\* re-raised.
place_order_retrying(post_ok) ==
    [attempts |-> IF post_ok THEN 1 ELSE 2, raised |-> ~post_ok,
     error |-> IF post_ok THEN "" ELSE "post_error"]

place_order(post_ok) ==
    [attempts |-> 1, raised |-> ~post_ok,
     error |-> IF post_ok THEN "" ELSE "post_error"]

\* PolymarketTrader.buy and sell: the event lookup, the market or limit
\* order, the signing (client.create_order) and the submission.
trade(side, event_ok, market, limit_price, book, amount, sign_ok, post_ok) ==
    LET given == [NoTrade EXCEPT !.side = side, !.event_ok = event_ok,
                      !.market = market, !.limit_price = limit_price,
                      !.book = book, !.amount = amount,
                      !.sign_ok = sign_ok, !.post_ok = post_ok]
        Raise(t, e) == [t EXCEPT !.raised = TRUE, !.error = e]
        quote == IF market THEN create_market_order(side, book)
                 ELSE [raised |-> FALSE, price |-> limit_price]
        order == create_limit_order(quote.price, amount)
        built == [given EXCEPT !.built = TRUE, !.used_price = quote.price,
                      !.price = order.price, !.size = order.size,
                      !.effective_amount = order.effective_amount]
        posted == place_order(post_ok)
    IN  IF ~event_ok THEN Raise(given, "event_not_found")
        ELSE IF quote.raised THEN Raise(given, "no_price")
        ELSE IF order.raised THEN Raise(given, "division_by_zero")
        ELSE IF ~sign_ok THEN Raise(built, "sign_error")
        ELSE IF posted.raised
            THEN Raise([built EXCEPT !.signed = TRUE,
                            !.attempts = posted.attempts], posted.error)
        ELSE [built EXCEPT !.signed = TRUE, !.attempts = posted.attempts,
                  !.returned = TRUE]

buy(event_ok, market, limit_price, book, amount, sign_ok, post_ok) ==
    trade("BUY", event_ok, market, limit_price, book, amount, sign_ok, post_ok)

sell(event_ok, market, limit_price, book, amount, sign_ok, post_ok) ==
    trade("SELL", event_ok, market, limit_price, book, amount, sign_ok, post_ok)

\* Input prices, in thousandths of a dollar.
OrderPrices == {0, 5, 100, 333, 500, 537, 990}

\* Order books as get_order_book returns them, prices in thousandths.
OrderBooks ==
    {[asks |-> <<>>, bids |-> <<>>],
     [asks |-> <<990, 600, 537>>, bids |-> <<10, 400, 500>>],
     [asks |-> <<333>>, bids |-> <<>>],
     [asks |-> <<>>, bids |-> <<100>>]}

\* Where the price comes from: price=None (the market path, with the book
\* the exchange returns) or a limit price.
OrderQuotes ==
    {[market |-> TRUE, limit_price |-> 0, book |-> b] : b \in OrderBooks}
        \cup {[market |-> FALSE, limit_price |-> p,
                book |-> [asks |-> <<>>, bids |-> <<>>]] : p \in OrderPrices}

\* Order amounts, in thousandths of a dollar.
OrderAmounts == {-10000, 0, 1000, 2500, 10000, 15000}

OrderBuy ==
    /\ \E event_ok \in BOOLEAN, quote \in OrderQuotes, amount \in OrderAmounts,
          sign_ok \in BOOLEAN, post_ok \in BOOLEAN :
            last' = [NoCall EXCEPT !.op = "buy",
                         !.trade = buy(event_ok, quote.market, quote.limit_price,
                                       quote.book, amount, sign_ok, post_ok)]
    /\ UNCHANGED <<reported, last_summary, now, dry_run, daily_bets, research_count, store, cycle, got>>

OrderSell ==
    /\ \E event_ok \in BOOLEAN, quote \in OrderQuotes, amount \in OrderAmounts,
          sign_ok \in BOOLEAN, post_ok \in BOOLEAN :
            last' = [NoCall EXCEPT !.op = "sell",
                         !.trade = sell(event_ok, quote.market, quote.limit_price,
                                        quote.book, amount, sign_ok, post_ok)]
    /\ UNCHANGED <<reported, last_summary, now, dry_run, daily_bets, research_count, store, cycle, got>>

OrderNext == OrderBuy \/ OrderSell

SpecOrder == Init /\ [][OrderNext]_vars

(***************************************************************************)
(* The bet handler driven together with the trader: place_bet calls with   *)
(* the order that trader.buy builds for them.  The amount place_bet is     *)
(* given is in dollars; the trader works in thousandths.                   *)
(***************************************************************************)
ReportedCap == 40    \* sums of reported amounts are followed up to here

\* What _execute_bet's outcome is called, from what get_market_detail
\* answered and how far trader.buy went.
path_of_trade(detail, traded, is_dict) ==
    IF detail = "none" THEN "market_not_found"
    ELSE IF detail = "no_slug" THEN "no_slug"
    ELSE IF traded.returned
        THEN (IF is_dict THEN "returned_dict" ELSE "returned_other")
    ELSE IF traded.attempts > 0 THEN "post_raised"
    ELSE IF traded.error = "event_not_found" THEN "event_not_found"
    ELSE IF traded.error = "no_price" THEN "no_ask"
    ELSE IF traded.error = "sign_error" THEN "sign_failed"
    ELSE "order_raised"

\* _execute_bet after an approving gate: get_market_detail, then
\* trader.buy(slug, outcome, amount) with price=None, then record_bet.
execute_bet_buy(ledger, t, market_id, amount, world) ==
    LET traded == buy(world.event_ok, TRUE, 0, world.book, amount * Mills,
                      world.sign_ok, world.post_ok)
        path == path_of_trade(world.detail, traded, world.is_dict)
    IN  [path |-> path,
         trade |-> IF world.detail = "ok" THEN traded ELSE NoTrade,
         result |-> execute_bet_trade(ledger, t, market_id, amount, path, 0)]

\* The ledger-shaped sum with `amount` added under the day of t.
Add(sums, t, amount) ==
    [d \in DOMAIN sums \cup {Today(t)} |->
        Get(sums, d, 0) + (IF d = Today(t) THEN amount ELSE 0)]

BetMarkets == {"m1"}

BetAmounts == {-10, 0, 1, 10}

BetAccounts ==
    {[raw |-> 100, positions |-> <<>>],
     [raw |-> Unavailable, positions |-> <<Position("m1", 20)>>],
     [raw |-> Failed, positions |-> <<>>]}

BetBook == [asks |-> <<990, 600, 500>>, bids |-> <<400>>]

\* The market service and the exchange, as one place_bet meets them.
BetWorld(detail, book, post_ok, is_dict) ==
    [detail |-> detail, event_ok |-> TRUE, book |-> book, sign_ok |-> TRUE,
     post_ok |-> post_ok, is_dict |-> is_dict]

BetWorlds ==
    {BetWorld("ok", BetBook, TRUE, TRUE),
     BetWorld("ok", BetBook, FALSE, TRUE),
     BetWorld("ok", [asks |-> <<100>>, bids |-> <<>>], TRUE, TRUE),
     BetWorld("ok", [asks |-> <<>>, bids |-> <<>>], TRUE, TRUE),
     BetWorld("none", BetBook, TRUE, TRUE)}

\* research_market_and_save through the service, the save succeeding.
BetResearch ==
    \E market_id \in BetMarkets :
        /\ store' = save_research(store, now, market_id)
        /\ last' = [NoCall EXCEPT !.op = "research.save", !.market_id = market_id,
                        !.stage = "ok"]
        /\ UNCHANGED <<reported, last_summary, got, cycle, now, dry_run, daily_bets,
                       research_count>>

BetPlace ==
    \E market_id \in BetMarkets, amount \in BetAmounts, acct \in BetAccounts :
        \E g \in {execute_bet_gate(dry_run, daily_bets, store, now, market_id,
                                   amount, acct)} :
            LET call == [NoCall EXCEPT !.op = "place_bet",
                             !.market_id = market_id, !.amount = amount,
                             !.raw = acct.raw,
                             !.balance = g.balance, !.positions = g.positions,
                             !.researched = g.researched, !.queried = g.queried,
                             !.allowed = g.allowed, !.message = g.message]
            IN  IF g.stage # "trade"
                THEN /\ daily_bets' = g.daily_bets
                     /\ last' = [call EXCEPT !.stage = g.stage,
                                             !.success = (g.stage = "dry_run")]
                     /\ reported' = IF g.stage = "dry_run"
                                    THEN Add(reported, now, amount) ELSE reported
                     /\ \A d \in DOMAIN reported' :
                            /\ reported'[d] <= ReportedCap
                            /\ reported'[d] >= -ReportedCap
                     /\ UNCHANGED <<last_summary, got, cycle, now, dry_run,
                                    research_count, store>>
                ELSE \E world \in BetWorlds :
                      \E b \in {execute_bet_buy(g.daily_bets, now, market_id,
                                                amount, world)} :
                        /\ \A d \in DOMAIN b.result.daily_bets :
                                b.result.daily_bets[d] >= -LedgerFloor
                        /\ daily_bets' = b.result.daily_bets
                        /\ last' = [call EXCEPT
                                        !.path = b.path, !.trade = b.trade,
                                        !.signed = b.result.signed,
                                        !.stage = b.result.stage,
                                        !.posted = b.result.posted,
                                        !.returned = b.result.returned,
                                        !.order = b.result.order,
                                        !.success = b.result.success]
                        /\ reported' = IF b.result.success
                                       THEN Add(reported, now, amount) ELSE reported
                        /\ UNCHANGED <<last_summary, got, cycle, now, dry_run,
                                       research_count, store>>

\* The calls of one day: the clock stands still.
BetNext ==
    \/ BetResearch
    \/ BetPlace

SpecBet == Init /\ [][BetNext]_vars


(***************************************************************************)
(* Properties                                                              *)
(***************************************************************************)
\* ledger.get(today, 0) in the current state
LedgerToday == Get(daily_bets, Today(now), 0)

\* C1: the daily ledger is changed only by a place_bet whose check_bet
\* approved and whose trader.buy returned without raising; a place_bet that
\* is rejected, fails resolution, or whose order build or submission raises
\* leaves every ledger entry as it was.
C1_LedgerOnlyBySubmittedBet ==
    [][daily_bets' # daily_bets =>
        (last'.op = "place_bet" /\ last'.allowed /\ last'.returned)]_vars

\* A bet was recorded earlier, and the latest place_bet was approved but its
\* submission raised.
C1_Witness ==
    /\ last.op = "place_bet"
    /\ last.allowed
    /\ last.posted
    /\ ~last.returned
    /\ LedgerToday = 10

\* C2: every order submission happens inside a place_bet call whose check_bet
\* returned allowed for the market and amount of the order; no other tool
\* handler and no rejected place_bet submits an order.
C2_SubmissionOnlyAfterApproval ==
    last.posted =>
        /\ last.op = "place_bet"
        /\ last.allowed
        /\ last.order = [market_id |-> last.market_id, amount |-> last.amount]

C2_Witness ==
    /\ last.op = "place_bet"
    /\ last.posted
    /\ last.stage = "placed"
    /\ last.order.amount = 10

\* The six rules of check_bet as the specification lists them, on the inputs
\* of the latest check_bet call.
Rule1 == last.researched

Rule2 == last.amount <= MAX_SINGLE_BET

Rule3 == last.amount <= last.balance.available_usdc

Rule4 ==
    (last.balance.available_usdc - last.amount) * 100
        >= last.balance.total_usdc * MIN_RESERVE_PCT

Rule5 ==
    (existing_position(last.positions, last.market_id) + last.amount) * 100
        <= last.balance.total_usdc * MAX_POSITION_PCT

Rule6 == LedgerToday + last.amount <= MAX_DAILY_BETS

FirstFailure ==
    IF ~Rule1 THEN MsgResearch
    ELSE IF ~Rule2 THEN MsgSingle
    ELSE IF ~Rule3 THEN MsgBalance
    ELSE IF ~Rule4 THEN MsgReserve
    ELSE IF ~Rule5 THEN MsgPosition
    ELSE IF ~Rule6 THEN MsgDaily
    ELSE MsgOK

\* C3: check_bet evaluates its six rules in the fixed order: it returns
\* (false, the reason of the first rule that fails), and (true, OK) exactly
\* when all six rules pass.
C3_RulesInOrder ==
    last.op = "check_bet" =>
        /\ last.allowed = (Rule1 /\ Rule2 /\ Rule3 /\ Rule4 /\ Rule5 /\ Rule6)
        /\ last.message = FirstFailure

\* The reserve rule and the position rule both fail: the reserve rule, the
\* earlier one, gives the reason.
C3_Witness ==
    /\ last.op = "check_bet"
    /\ Rule1 /\ Rule2 /\ Rule3 /\ ~Rule4 /\ ~Rule5
    /\ last.message = MsgReserve

\* C4: for every date d, ledger[d] never exceeds MAX_DAILY_BETS, after any
\* sequence of place_bet calls with the date advancing between them.
C4_DailyCap == \A d \in DOMAIN daily_bets : daily_bets[d] <= MAX_DAILY_BETS

\* The day's ledger is at the cap and a further bet was turned down by the
\* daily rule.
C4_Witness ==
    /\ last.op = "place_bet"
    /\ last.message = MsgDaily
    /\ LedgerToday = MAX_DAILY_BETS

\* C5: for a fixed date d the value of ledger[d] never decreases.
C5_LedgerNeverDecreases ==
    [][\A d \in DOMAIN daily_bets :
            d \in DOMAIN daily_bets' /\ daily_bets'[d] >= daily_bets[d]]_vars

\* C6: check_bet reads the ledger and never writes it: approved or rejected,
\* the ledger after the call is the ledger before it, with no key created.
C6_CheckBetLeavesLedger ==
    [][last'.op = "check_bet" => daily_bets' = daily_bets]_vars

\* An approved check on a day the ledger has no key for.
C6_Witness ==
    /\ last.op = "check_bet"
    /\ last.allowed
    /\ Today(now) \notin DOMAIN daily_bets
    /\ DOMAIN daily_bets # {}

\* C7: every amount greater than MAX_SINGLE_BET is rejected, whatever the
\* snapshot, the positions, the researched flag and the ledger are.
C7_OverSingleBetRejected ==
    (last.op = "check_bet" /\ last.amount > MAX_SINGLE_BET) => ~last.allowed

\* The single-bet rule is the only one that fails.
C7_Witness ==
    /\ last.op = "check_bet"
    /\ last.amount > MAX_SINGLE_BET
    /\ Rule1 /\ Rule3 /\ Rule4 /\ Rule5 /\ Rule6
    /\ ~last.allowed

\* C8: with researched = false check_bet rejects with the research-required
\* reason, whether rules 2 to 6 would pass or not.
C8_UnresearchedRejected ==
    (last.op = "check_bet" /\ ~last.researched) =>
        (~last.allowed /\ last.message = MsgResearch)

\* Unresearched, and every numeric rule passes.
C8_Witness ==
    /\ last.op = "check_bet"
    /\ ~last.researched
    /\ Rule2 /\ Rule3 /\ Rule4 /\ Rule5 /\ Rule6
    /\ last.message = MsgResearch

\* A $25 bet attempted through place_bet on a researched market, on a day
\* whose ledger holds $10, with a snapshot that passes rules 3 to 5 for it.
C9_Scenario ==
    /\ last.op = "place_bet"
    /\ last.amount = 25
    /\ last.researched
    /\ Rule3 /\ Rule4 /\ Rule5
    /\ LedgerToday = 10

\* C9 as stated: after a $10 bet was approved and submitted, a $25 bet on the
\* same day is rejected by rule 6 (the daily cap).
C9_RejectedByDailyCap ==
    C9_Scenario => (~last.allowed /\ last.message = MsgDaily)

\* C9 as amended: the $25 bet is rejected by rule 2 (the single-bet limit),
\* which comes before rule 6; no order is submitted for it and the $10
\* already recorded stays in the ledger.
C9_RejectedBySingleBetLimit ==
    [][C9_Scenario' =>
        /\ ~last'.allowed
        /\ last'.message = MsgSingle
        /\ ~Rule6'
        /\ ~last'.posted
        /\ daily_bets' = daily_bets]_vars

C9_Witness == C9_Scenario /\ ~last.allowed /\ ~dry_run

\* C10: check_bet approves only if available - amount >= total *
\* MIN_RESERVE_PCT; with available = 18 and total = 100 every positive
\* amount is rejected.
C10_ReserveKept ==
    last.op = "check_bet" =>
        /\ last.allowed => Rule4
        /\ (last.balance.available_usdc = 18 /\ last.balance.total_usdc = 100
                /\ last.amount > 0) => ~last.allowed

\* available = 18, total = 100: a $1 bet fails the reserve rule alone.
C10_Witness ==
    /\ last.op = "check_bet"
    /\ last.balance.available_usdc = 18
    /\ last.balance.total_usdc = 100
    /\ last.amount = 1
    /\ Rule1 /\ Rule2 /\ Rule3 /\ Rule5 /\ Rule6
    /\ last.message = MsgReserve

\* Whether a record for market m is stored, and how old it is.
Stored(m) == store[m] # NoRecord

Age(m) == now - store[m]

\* C18: the researched flag place_bet passes to the risk gate is exactly
\* get(market_id) # absent when the bet is made: a bet on a market never
\* researched, whose record was deleted, or whose record is older than 24h is
\* rejected with the research-required reason, and a bet on a market with a
\* record at most 24h old passes rule 1.
C18_ResearchedIsFreshRecord ==
    [][last'.op = "place_bet" =>
        LET m == last'.market_id
            fresh == Stored(m) /\ Age(m) <= CACHE_EXPIRY_HOURS
        IN  /\ last'.researched = fresh
            /\ ~fresh => (~last'.allowed /\ last'.message = MsgResearch)
            /\ fresh => last'.message # MsgResearch]_vars

\* A bet on a market whose only record is 25 hours old was turned down for
\* want of research.
C18_Witness ==
    /\ last.op = "place_bet"
    /\ Stored(last.market_id)
    /\ Age(last.market_id) = 25
    /\ ~last.researched
    /\ last.message = MsgResearch

\* C19: get(market_id) returns the stored record if and only if one is stored
\* and its age is at most 24h; it returns absent when none is stored and when
\* the stored record is older than 24h.
C19_GetReturnsFreshRecord ==
    last.op = "research.get" =>
        LET m == last.market_id
        IN  last.record = IF Stored(m) /\ Age(m) <= CACHE_EXPIRY_HOURS
                          THEN store[m] ELSE NoRecord

\* A record exactly 24 hours old is returned.
C19_Witness ==
    /\ last.op = "research.get"
    /\ Stored(last.market_id)
    /\ Age(last.market_id) = CACHE_EXPIRY_HOURS
    /\ last.record = store[last.market_id]

\* C20: get never removes or alters a stored record; an expired record is
\* absent from get but still returned by list_all and still removed by
\* delete; list_all returns every stored record whatever its age.
C20_GetLeavesTable ==
    [][/\ last'.op = "research.get" => store' = store
       /\ last'.op = "research.list_all" =>
            (store' = store /\ last'.listed = {m \in Markets : Stored(m)})
       /\ last'.op = "research.delete" =>
            store' = [store EXCEPT ![last'.market_id] = NoRecord]]_vars

\* get has just answered absent for a record 25 hours old, which is still in
\* the table.
C20_Witness ==
    /\ last.op = "research.get"
    /\ last.record = NoRecord
    /\ Stored(last.market_id)
    /\ Age(last.market_id) = 25

\* The loop stands at its while test and the test lets it go round.
NextTurnDue == cycle.pc = "loop" /\ cycle.iteration < max_iterations

\* C11: when every response carries a tool invocation, run_cycle calls the
\* oracle exactly 20 times, dispatches the tool calls of all 20 responses and
\* returns the ceiling sentinel; whatever the oracle does, no cycle makes a
\* 21st oracle call.  (Stated as safety: the sentinel is returned only so,
\* and after the 20th dispatched response nothing but the sentinel return
\* can follow.)
C11_CeilingAfterTwentyTurns ==
    /\ cycle.oracle_calls <= max_iterations
    /\ cycle.pc = "ceiling" =>
        /\ cycle.oracle_calls = max_iterations
        /\ cycle.turns_dispatched = max_iterations
        /\ cycle.report = "ceiling"
    /\ (cycle.pc = "loop" /\ cycle.turns_dispatched = max_iterations) =>
        (ENABLED CycleCeiling /\ ~ENABLED CycleOracle)

C11_Witness ==
    /\ cycle.pc = "ceiling"
    /\ cycle.oracle_calls = max_iterations
    /\ cycle.turns_dispatched = max_iterations
    /\ cycle.tool_results = MaxToolUses

\* C12: the first response without a tool invocation ends the cycle:
\* run_cycle returns its text as the report, calls no tool handler for it,
\* and makes no further oracle call in the cycle.
C12_TextResponseEndsCycle ==
    [][/\ cycle'.response = "text" =>
            /\ cycle'.pc = "done"
            /\ cycle'.report = "text"
            /\ cycle'.tool_results = 0
            /\ last' = NoCall
            /\ UNCHANGED <<got, now, daily_bets, research_count, store>>
       /\ cycle.pc = "done" =>
            (cycle'.pc = "loop" /\ cycle'.oracle_calls = 0)]_vars

\* The twentieth response is the first without a tool invocation.
C12_Witness ==
    /\ cycle.pc = "done"
    /\ cycle.oracle_calls = max_iterations
    /\ cycle.turns_dispatched = max_iterations - 1
    /\ cycle.report = "text"

C14_PaidResearchAtMostFive == cycle.paid <= MAX_RESEARCH_PER_CYCLE

\* C15: once the research counter has reached 5, a research_market_and_save
\* tool call returns an error payload and leaves the research cache and the
\* counter unchanged, with no paid call, and the cycle continues with the
\* next tool call or oracle turn.
C15_LimitShortCircuits ==
    [][(research_count >= MAX_RESEARCH_PER_CYCLE
            /\ last'.op = "research_market_and_save") =>
        /\ last'.stage = "limit"
        /\ store' = store
        /\ research_count' = research_count
        /\ cycle'.paid = cycle.paid
        /\ cycle'.tool_results = cycle.tool_results + 1
        /\ cycle'.pc = IF cycle.pending > 1 THEN "dispatch" ELSE "loop"]_vars

\* The sixth research call of a cycle was turned away; the record saved
\* earlier is still there.
C15_Witness ==
    /\ last.op = "research_market_and_save"
    /\ last.stage = "limit"
    /\ research_count = MAX_RESEARCH_PER_CYCLE
    /\ cycle.paid = MAX_RESEARCH_PER_CYCLE
    /\ Stored(last.market_id)

C17_SaveFailuresSwallowed ==
    (cycle.response = "text" /\ (~cycle.file_ok \/ ~cycle.history_ok)) =>
        /\ cycle.pc = "done"
        /\ cycle.report = "text"
        /\ cycle.file_tried
        /\ cycle.history_tried

\* Both writes failed and the report was returned.
C17_Witness ==
    /\ cycle.pc = "done"
    /\ ~cycle.file_ok
    /\ ~cycle.history_ok
    /\ cycle.history_tried
    /\ cycle.report = "text"

\* C21: two get(market_id) calls made while the stored record is within its
\* TTL, with no put or delete for that market between them, return identical
\* records.
C21_RepeatedGetSameRecord ==
    [][(/\ last'.op = "research.get"
        /\ last'.record # NoRecord
        /\ got[last'.market_id] # NoRecord) =>
            last'.record = got[last'.market_id]]_vars

\* A second get, hours after the first, returned the record again.
C21_Witness ==
    /\ last.op = "research.get"
    /\ last.record # NoRecord
    /\ got[last.market_id] = last.record
    /\ Age(last.market_id) = CACHE_EXPIRY_HOURS

\* C22: the store holds at most one record per market_id, and put is
\* last-write-wins: after put(m, r1) then put(m, r2), get(m) within the TTL
\* returns r2 with r2's research_time and list_all has exactly one entry
\* for m.
C22_LastWriteWins ==
    [][(last'.op = "research.save" /\ last'.stage = "ok") =>
        LET m == last'.market_id
        IN  /\ store'[m] = now
            /\ \A o \in Markets \ {m} : store'[o] = store[o]
            /\ get_research_result(store', now', m) = now
            /\ Cardinality({e \in list_all_research(store') : e = m}) = 1]_vars

\* A record 12 or more hours old has just been overwritten.
C22_Witness ==
    /\ last.op = "research.save"
    /\ last.stage = "ok"
    /\ last.replaced # NoRecord
    /\ last.replaced < store[last.market_id]
    /\ store[last.market_id] = now

\* The latest buy or sell built an order (it reached client.create_order).
OrderBuilt == last.op \in {"buy", "sell"} /\ last.trade.built

\* The order's amount / price is below MIN_SHARES.
BelowMinimum == last.trade.amount < MIN_SHARES * last.trade.used_price

\* C23: every order built has size >= MIN_SHARES: when amount / price is
\* below MIN_SHARES the size is exactly MIN_SHARES and the effective notional
\* is MIN_SHARES * price, so build(amount = 1.0, limit_price = 0.50) gives
\* size 5.0000, price 0.50 and notional 2.50; otherwise the size is
\* amount / price rounded down to 4 decimal places.
C23_MinimumShares ==
    OrderBuilt =>
        LET t == last.trade
        IN  /\ t.size >= MIN_SHARES * SizeUnits
            /\ BelowMinimum =>
                /\ t.size = MIN_SHARES * SizeUnits
                /\ t.effective_amount = MIN_SHARES * t.used_price
            /\ ~BelowMinimum =>
                /\ t.size * t.used_price <= t.amount * SizeUnits
                /\ t.amount * SizeUnits < (t.size + 1) * t.used_price
                /\ t.effective_amount = t.amount
            /\ (t.amount = 1000 /\ t.used_price = 500) =>
                /\ t.size = 50000
                /\ t.price = 50
                /\ t.effective_amount = 2500
                /\ t.price * t.size * 10 = 2500 * SizeUnits

\* build(amount = 1.0, limit_price = 0.50)
C23_Witness ==
    /\ OrderBuilt
    /\ ~last.trade.market
    /\ last.trade.amount = 1000
    /\ last.trade.limit_price = 500
    /\ last.trade.size = 50000

\* C24: the order price is the input price rounded toward zero to 2 decimal
\* places and the order size the share count rounded toward zero to 4
\* decimal places: 0 <= price - quantized_price < 0.01 and
\* 0 <= shares - quantized_size < 0.0001.
C24_Quantization ==
    OrderBuilt =>
        LET t == last.trade
            unit == Mills \div Cents
        IN  /\ t.price * unit <= t.used_price
            /\ t.used_price < t.price * unit + unit
            /\ IF BelowMinimum
               THEN t.size = MIN_SHARES * SizeUnits
               ELSE /\ 0 <= t.amount * SizeUnits - t.size * t.used_price
                    /\ t.amount * SizeUnits - t.size * t.used_price < t.used_price

\* $10 at 0.537: price 0.53, size 18.6219.
C24_Witness ==
    /\ OrderBuilt
    /\ last.trade.amount = 10000
    /\ last.trade.used_price = 537
    /\ last.trade.price = 53
    /\ last.trade.size = 186219

\* C25: on the market path the order price is the last entry of the relevant
\* side of the book as returned: a BUY is priced at the last ask, a SELL at
\* the last bid, never at a mid price or at the first entry.
C25_MarketPriceIsLastEntry ==
    (last.op \in {"buy", "sell"} /\ last.trade.market /\ last.trade.event_ok) =>
        LET t == last.trade
            entries == IF last.op = "buy" THEN t.book.asks ELSE t.book.bids
        IN  IF entries = <<>>
            THEN t.raised /\ t.error = "no_price" /\ ~t.built
            ELSE /\ t.built
                 /\ t.used_price = entries[Len(entries)]
                 /\ t.side = IF last.op = "buy" THEN "BUY" ELSE "SELL"

\* A buy against a book of three asks took the last of them.
C25_Witness ==
    /\ last.op = "buy"
    /\ last.trade.market
    /\ last.trade.built
    /\ Len(last.trade.book.asks) = 3
    /\ last.trade.used_price = 537
    /\ last.trade.book.asks[1] = 990

\* C27: order submission is a single attempt: each buy or sell invokes the
\* exchange submission at most once, and when it raises the same error
\* reaches the caller, with no retry and no second submission.
C27_SingleSubmission ==
    last.op \in {"buy", "sell"} =>
        LET t == last.trade
        IN  /\ t.attempts <= 1
            /\ t.attempts = (IF t.signed THEN 1 ELSE 0)
            /\ (t.signed /\ ~t.post_ok) =>
                (t.raised /\ t.error = "post_error" /\ ~t.returned)

\* A sell whose submission raised.
C27_Witness ==
    /\ last.op = "sell"
    /\ last.trade.signed
    /\ ~last.trade.post_ok
    /\ last.trade.attempts = 1
    /\ last.trade.error = "post_error"

\* The resolution failures of a trade: no market detail, a market without a
\* slug, a slug resolving to fewer than two outcome tokens, an empty side of
\* the order book.
ResolutionFailures == {"market_not_found", "no_slug", "event_not_found", "no_ask"}

\* C26: a resolution failure inside place_bet yields a {success: false,
\* message} tool result; no order is signed or submitted, the ledger is
\* unchanged, and the cycle continues.
C26_ResolutionFailureIsAResult ==
    [][(last'.op = "place_bet" /\ last'.path \in ResolutionFailures) =>
        /\ last'.stage \in {"market_not_found", "no_slug", "trade_failed"}
        /\ ~last'.success
        /\ ~last'.signed
        /\ ~last'.posted
        /\ daily_bets' = daily_bets
        /\ cycle'.tool_results = cycle.tool_results + 1
        /\ cycle'.pc = IF cycle.pending > 1 THEN "dispatch" ELSE "loop"]_vars

\* An approved bet met an empty ask side; the loop is about to call the
\* oracle again.
C26_Witness ==
    /\ last.op = "place_bet"
    /\ last.allowed
    /\ last.path = "no_ask"
    /\ last.stage = "trade_failed"
    /\ NextTurnDue

\* C28: in dry-run mode no real order is submitted and the account provider
\* is not queried: trader.buy / post_order is never invoked, get_balance
\* returns the fixed snapshot (available 100, locked 0, total 100), and
\* place_bet runs the risk gate against that snapshot with no positions.
C28_DryRunTouchesNothing ==
    dry_run =>
        /\ ~last.queried
        /\ last.path = ""
        /\ ~last.signed
        /\ ~last.posted
        /\ last.op = "get_balance" => last.balance = Snapshot(100, 0, 100)
        /\ last.op = "get_my_positions" => last.positions = <<>>
        /\ last.op = "place_bet" =>
            /\ last.balance = Snapshot(100, 0, 100)
            /\ last.positions = <<>>
            /\ last.stage \in {"rejected", "dry_run"}
            /\ last.message = FirstFailure
            /\ last.success = last.allowed

\* A dry-run bet was approved against the fixed snapshot.
C28_Witness ==
    /\ dry_run
    /\ last.op = "place_bet"
    /\ last.stage = "dry_run"
    /\ last.success
    /\ last.balance = Snapshot(100, 0, 100)

\* C29: the tool invocations of one oracle response are executed one at a
\* time in the order the oracle returned them, and the results are appended
\* in that order, each with the id of its invocation; a place_bet sees the
\* cache write of a research and the ledger update of a place_bet made
\* earlier in the same turn.
C29_InvocationsInOrder ==
    [][cycle.pc = "dispatch" =>
        /\ cycle'.tool_results = cycle.tool_results + 1
        /\ cycle'.result_ids =
                Append(cycle.result_ids, Len(cycle.result_ids) + 1)
        /\ Len(cycle'.result_ids) = cycle'.tool_results
        /\ cycle'.pc = "loop" =>
                cycle'.result_ids = [i \in 1 .. cycle.tool_uses |-> i]
        /\ (last'.op = "place_bet" /\ last'.stage # "error") =>
            /\ cycle.turn_saved => last'.researched
            /\ LedgerToday >= cycle.turn_spent
            /\ last'.allowed => LedgerToday + last'.amount <= MAX_DAILY_BETS
            /\ (last'.researched /\ last'.amount <= MAX_SINGLE_BET
                    /\ LedgerToday + last'.amount > MAX_DAILY_BETS) =>
                ~last'.allowed]_vars

\* The first response of the first cycle researched a market and then bet
\* on it: the bet, second in the response, found the record the research
\* had just written.
C29_Witness ==
    /\ cycle.oracle_calls = 1
    /\ research_count = 1
    /\ cycle.turn_saved
    /\ cycle.result_ids = <<1, 2>>
    /\ last.op = "place_bet"
    /\ last.researched
    /\ last.success

\* Two bets in one response: the second was refused by the daily limit
\* because of what the first had just added to the ledger.
C29_WitnessLedger ==
    /\ cycle.result_ids = <<1, 2>>
    /\ cycle.turn_spent = 15
    /\ LedgerToday = MAX_DAILY_BETS
    /\ last.op = "place_bet"
    /\ last.amount = 15
    /\ last.message = MsgDaily

\* C30: the conversation is append-only within a cycle: it starts with one
\* user message, every non-terminal turn appends one assistant message and
\* then one user message holding one tool result per invocation, nothing is
\* removed or rewritten, and after k non-terminal turns it has 1 + 2k
\* messages with roles alternating user, assistant, user.
C30_ConversationAppendOnly ==
    [][/\ cycle.pc \in {"loop", "dispatch"} =>
            /\ Len(cycle'.messages) >= Len(cycle.messages)
            /\ SubSeq(cycle'.messages, 1, Len(cycle.messages)) = cycle.messages
       /\ cycle.pc \in {"idle", "done", "ceiling"} => cycle'.messages = <<"user">>
       /\ cycle'.pc \in {"loop", "done", "ceiling", "crashed"} /\ cycle.pc # "dispatch"
            => Len(cycle'.messages) = 1 + 2 * cycle'.turns_dispatched
       /\ cycle'.pc = "dispatch" =>
            Len(cycle'.messages) = 2 + 2 * cycle'.turns_dispatched
       /\ (cycle.pc = "dispatch" /\ cycle'.pc = "loop") =>
            /\ cycle'.messages = Append(cycle.messages, "user")
            /\ cycle'.tool_results = cycle'.tool_uses
            /\ Len(cycle'.messages) = 1 + 2 * cycle'.turns_dispatched
       /\ (cycle.pc = "loop" /\ cycle'.pc = "dispatch") =>
            cycle'.messages = Append(cycle.messages, "assistant")
       /\ (cycle.pc = "loop" /\ cycle'.pc \in {"done", "ceiling", "crashed"}) =>
            cycle'.messages = cycle.messages
       /\ \A i \in 1 .. Len(cycle'.messages) :
            cycle'.messages[i] = IF i % 2 = 1 THEN "user" ELSE "assistant"]_vars

\* Two non-terminal turns are complete: five messages, the last a user
\* message with the results of a two-invocation response.
C30_Witness ==
    /\ cycle.pc = "loop"
    /\ cycle.turns_dispatched = 2
    /\ cycle.tool_results = 2
    /\ cycle.messages = <<"user", "assistant", "user", "assistant", "user">>

\* C31: for every order submitted through place_bet, the capital committed
\* (quantized price times quantized size of the built order) is at most the
\* amount that check_bet approved.
C31_NotionalWithinApproved ==
    (last.op = "place_bet" /\ last.posted) =>
        last.trade.price * last.trade.size
            <= last.trade.amount * ((Cents * SizeUnits) \div Mills)

\* C32: a place_bet with amount <= 0 never results in an order submission
\* or a ledger change: the risk gate rejects every non-positive amount.
C32_NonPositiveAmountRejected ==
    [][(last'.op = "place_bet" /\ last'.amount <= 0) =>
        /\ ~last'.allowed
        /\ ~last'.posted
        /\ daily_bets' = daily_bets]_vars

\* C36: in dry-run mode the daily cap is enforced across simulated bets:
\* within one day the amounts of the place_bet calls reported with
\* success = true sum to at most MAX_DAILY_BETS.
C36_DryRunDailyCap ==
    dry_run => \A d \in DOMAIN reported : reported[d] <= MAX_DAILY_BETS

\* C37: when the balance API is unreachable or the balance read fails, the
\* snapshot has total = available + locked, no negative field and
\* available = 0, so every place_bet with a positive amount is rejected and
\* no order is submitted.
C37_NoFundsWithoutBalance ==
    (last.op = "place_bet" /\ last.queried /\ last.raw \in {Unavailable, Failed}) =>
        /\ last.balance.total_usdc
                = last.balance.available_usdc + last.balance.locked_usdc
        /\ last.balance.available_usdc = 0
        /\ last.balance.locked_usdc >= 0
        /\ last.balance.total_usdc >= 0
        /\ last.raw = Failed => last.balance = Snapshot(0, 0, 0)
        /\ last.raw = Unavailable =>
                last.balance.total_usdc = locked_value(last.positions)
        /\ last.amount > 0 =>
            /\ ~last.allowed
            /\ last.stage = "rejected"
            /\ ~last.success
            /\ ~last.signed
            /\ ~last.posted
            /\ last.trade = NoTrade

\* The balance API was unreachable while $20 were held in positions: a
\* researched $10 bet is refused for lack of balance.
C37_Witness ==
    /\ last.op = "place_bet"
    /\ last.raw = Unavailable
    /\ last.balance = Snapshot(0, 20, 20)
    /\ last.researched
    /\ last.amount = 10
    /\ last.message = MsgBalance

\* C33: for every date d, ledger[d] is the sum of the requested amounts of
\* exactly those place_bet calls whose submission returned while the date
\* was d; amounts recorded under an earlier date are not counted by
\* check_bet's daily rule on a later date, where the day's total starts
\* from 0.
C33_LedgerIsSumPerDate ==
    [][LET bet == last'.op = "place_bet" /\ last'.returned
       IN  /\ \A d \in DOMAIN daily_bets \cup DOMAIN daily_bets' :
                Get(daily_bets', d, 0) =
                    Get(daily_bets, d, 0)
                        + (IF bet /\ d = Today(now') THEN last'.amount ELSE 0)
           /\ (last'.op = "place_bet" /\ Rule1' /\ Rule2' /\ Rule3' /\ Rule4'
                    /\ Rule5') =>
                (last'.allowed <=>
                    Get(daily_bets, Today(now), 0) + last'.amount
                        <= MAX_DAILY_BETS)]_vars

\* The first day's total stands at the daily limit, and a bet placed on the
\* second day was approved and recorded under the second day.
C33_Witness ==
    /\ Today(now) = 1
    /\ Get(daily_bets, 0, 0) = MAX_DAILY_BETS
    /\ Get(daily_bets, 1, 0) = 10
    /\ last.op = "place_bet"
    /\ last.amount = 10
    /\ last.success

\* C34: the research counter is per cycle: at the start of every run_cycle,
\* including a second run_cycle on the same bot instance, the count of
\* research calls is 0.
C34_ResearchCountPerCycle ==
    [][(cycle.pc \in {"idle", "done", "ceiling"} /\ cycle'.pc = "loop") =>
        research_count' = 0]_vars

\* research_market_and_save's oracle call failed, or no JSON object could be
\* decoded from its answer.
AnswerFailed(answer) == ~answer.oracle_ok \/ answer.json \in {"undecodable", "none"}

\* After research_market_and_save(m) the record of m is fresh, whatever was
\* stored before, and a place_bet on m that follows passes the researched
\* rule.
RecordStoredAndUsed ==
    /\ (last'.op = "research.save" /\ last'.saves) =>
        /\ last'.stage = "ok"
        /\ store'[last'.market_id] = now'
        /\ get_research_result(store', now', last'.market_id) # NoRecord
    /\ (last.op = "research.save" /\ last.stage = "ok" /\ last'.op = "place_bet"
            /\ last'.market_id = last.market_id) =>
        last'.researched

\* C35 as stated: after research_market_and_save(m) returns a fresh record
\* for m is stored even when the research oracle call failed or its answer
\* could not be parsed, the record then having estimated_probability 0.5 and
\* confidence 0.0 or 0.3; a following place_bet on m passes the researched
\* rule.
C35_DegradedRecordStored ==
    [][/\ RecordStoredAndUsed
       /\ (last'.op = "research.save" /\ last'.stage = "ok"
                /\ AnswerFailed(last'.answer)) =>
            /\ last'.result.estimated_probability = 50
            /\ last'.result.confidence \in {0, 30}]_vars

\* C35, amended: the record is stored and unlocks betting as stated; it has
\* estimated_probability 0.5 and confidence 0.0 when the oracle call failed
\* or a number of the decoded answer is refused, and when no JSON object
\* could be decoded it has the numbers found after the words probability
\* and confidence in the text, 0.5 and 0.3 standing in for those not found.
C35_RecordStoredWithFallbackNumbers ==
    [][/\ RecordStoredAndUsed
       /\ (last'.op = "research.save" /\ last'.stage = "ok"
                /\ (~last'.answer.oracle_ok \/ last'.answer.json = "bad_number")) =>
            /\ last'.result.estimated_probability = 50
            /\ last'.result.confidence = 0
       /\ (last'.op = "research.save" /\ last'.stage = "ok"
                /\ last'.answer.oracle_ok
                /\ last'.answer.json \in {"undecodable", "none"}) =>
            /\ last'.result.estimated_probability =
                    IF last'.answer.probability = Absent
                    THEN 50 ELSE last'.answer.probability
            /\ last'.result.confidence =
                    IF last'.answer.confidence = Absent
                    THEN 30 ELSE last'.answer.confidence]_vars

\* The oracle call failed and the degraded record replaced an older record
\* of the market.
C35_Witness ==
    /\ last.op = "research.save"
    /\ last.stage = "ok"
    /\ ~last.answer.oracle_ok
    /\ last.result.estimated_probability = 50
    /\ last.result.confidence = 0
    /\ last.replaced # NoRecord
    /\ last.replaced < now
    /\ store[last.market_id] = now

\* C38: the last-report memory and the cycle history are written only on
\* Done: when a cycle ends at the 20-turn ceiling, or is aborted because the
\* oracle call raises, nothing is persisted, so the previously stored report
\* is left unchanged and is what the next cycle loads.
C38_MemoryWrittenOnlyOnDone ==
    [][/\ cycle'.pc \in {"ceiling", "crashed"} =>
            /\ last_summary' = last_summary
            /\ ~cycle'.file_tried
            /\ ~cycle'.history_tried
       /\ (cycle'.file_tried \/ cycle'.history_tried
                \/ last_summary' # last_summary) =>
            /\ cycle.pc = "loop"
            /\ cycle'.pc = "done"
            /\ cycle'.response = "text"
       /\ (cycle'.pc = "done" /\ cycle.pc = "loop" /\ cycle'.file_ok) =>
            last_summary' = cycle'.report
       /\ (cycle.pc \in {"idle", "done", "ceiling"} /\ cycle'.pc = "loop") =>
            /\ cycle'.loaded = last_summary
            /\ last_summary' = last_summary]_vars

\* A cycle that had loaded the report of an earlier cycle ended at the
\* ceiling after twenty dispatched turns, and the stored report is still
\* that one.
C38_Witness ==
    /\ cycle.pc = "ceiling"
    /\ cycle.turns_dispatched = max_iterations
    /\ cycle.loaded = "text"
    /\ last_summary = "text"
    /\ ~cycle.file_tried

====
